---- MODULE Spec2Model ----
(***************************************************************************)
(* Model of the synthetic credit-risk panel generator                      *)
(* (0_generate_dataset.py) and of the label deriver                        *)
(* (module_dataprep.py, build_default_flags).                              *)
(*                                                                         *)
(* Conventions                                                             *)
(*  - A data-frame cell is a tuple: <<v>> holds the value v, <<>> is NaN.  *)
(*  - A data frame is a function from column names to equally long         *)
(*    sequences of cells.                                                  *)
(*  - Row indices, loop counters and first_default_idx keep the 0-based    *)
(*    values of the Python code; sequences are 1-based, so row i of the    *)
(*    code is element i + 1 of a column.                                   *)
(*  - Money is kept in whole currency units; a fraction drawn from         *)
(*    [0, 1) is kept in thousandths, a percentage in percent.              *)
(*  - numpy's global generator is the pair (tape, pos): tape is the        *)
(*    stream the seed determines, revealed draw by draw, pos the next      *)
(*    position to be consumed. Seeding rewinds pos to the stream's start.  *)
(*  - Generator dates are days since start_date (2020-01-01).              *)
(***************************************************************************)
EXTENDS Integers, Sequences, FiniteSets, TLC

VARIABLES
  num_ids,                \* configuration: number of entities
  no_obs_per_id,          \* configuration: length of the weekly grid
  pc,                     \* position in the script
  error,                  \* the exception that ended the run ("" if none)
  tape, pos,              \* the seeded random stream and the read position
  n_dummies,              \* scale per noise feature
  cur_id,                 \* loop variable _id (ordinal of "ID_%04d"), 0 before the loop
  first_default_dates,    \* id -> <<date>> or None
  first_default_idx,      \* the index drawn for the current entity (0-based)
  id_df,                  \* the current entity's frame
  initial_credit_limit, credit_limits, i,
  std_epsilon, current_used_amount, used_amounts,
  all_id_data,            \* frames of the finished entities
  final_df,               \* the concatenated frames, as a sequence of rows
  outcomes,               \* what earlier executions of the script ended with
  lpc,                    \* position in build_default_flags
  panel, data_cutoff,     \* its arguments df and data_cutoff
  out, ids,               \* its locals out and ids
  horizon,                \* its loop variable n: the horizon handled next
  series                  \* its local s: the labels of the last horizon, per id

genvars == <<num_ids, no_obs_per_id, pc, error, tape, pos, n_dummies, cur_id,
             first_default_dates, first_default_idx, id_df,
             initial_credit_limit, credit_limits, i, std_epsilon,
             current_used_amount, used_amounts, all_id_data, final_df, outcomes>>
lblvars == <<lpc, panel, data_cutoff, out, ids, horizon, series>>
vars == <<genvars, lblvars>>

----------------------------------------------------------------------------
(* Bounds of the model *)

\* num_ids * no_obs_per_id <= MaxRows in the full generator runs
MaxRows == 2
\* grid lengths explored by the default-assignment runs
MaxGrid == 12
\* grid length of the credit-limit runs
MaxLimitGrid == 8
\* rows of the panels handed to build_default_flags
MaxPanelRows == 2

(* Program constants *)

FirstMonday == 5
NumDummies == 5
CreditLimitFloor == 10000
MinStdEpsilon == 100

(* Values the random draws are taken from *)

\* np.random.rand(), in thousandths
RandDraws == {0, 999}
\* np.random.choice(["A", "B", "C", "D"])
SectorDraws == {"A", "D"}
\* np.random.uniform(100000, 5000000)
LimitDraws == {100000, 5000000}
\* np.random.uniform(0.20, 0.30), in percent
PercentDraws == {20, 30}
\* np.random.uniform(0.5, 1.5), in percent
JitterDraws == {100}
\* np.random.normal(0, std_epsilon) / std_epsilon
ZDraws == {-2, 1}
\* np.random.uniform(0, 1000), one per feature
ScaleDraws == {<<0, 250, 500, 750, 1000>>, <<1000, 1, 999, 0, 500>>}
\* np.random.normal(0, 1, n), one vector per feature
NormalDraws(n) == {[f \in 1..NumDummies |-> [r \in 1..n |-> 3 * (2 * r - f)]]}

----------------------------------------------------------------------------
(* Cells and frames *)

NaN == <<>>
None == <<>>
Val(v) == <<v>>
Get(c) == c[1]

\* a list or array as a column
Column(values) == [k \in 1..Len(values) |-> Val(values[k])]
\* a scalar broadcast over an index of length n
Broadcast(v, n) == [k \in 1..n |-> Val(v)]

\* pd.date_range(start, end, freq="W-MON"), as days since start_date
date_range == [k \in 1..no_obs_per_id |-> FirstMonday + 7 * (k - 1)]

NumRowsOf(df) == Len(df["date"])
Columns(df) == DOMAIN df
DummyCol(f) == <<"f_dummy1", "f_dummy2", "f_dummy3", "f_dummy4", "f_dummy5">>[f]

Max(a, b) == IF a >= b THEN a ELSE b
Min(a, b) == IF a <= b THEN a ELSE b

\* floor of the square root
ISqrt(x) == CHOOSE r \in 0..(x + 1) : r * r <= x /\ (r + 1) * (r + 1) > x

----------------------------------------------------------------------------
(* The random stream *)

\* a draw: the call site, the value drawn, the entity being generated
Entry(site, v) == [site |-> site, val |-> v, id |-> cur_id]

\* the draws vals are what the stream yields at pos
Yields(vals) ==
  \A k \in 1..Len(vals) : pos + k - 1 <= Len(tape) => tape[pos + k - 1] = vals[k]

\* consume the draws vals
Consume(vals) ==
  /\ Yields(vals)
  /\ pos' = pos + Len(vals)
  /\ tape' = IF pos + Len(vals) - 1 > Len(tape)
             THEN SubSeq(tape, 1, pos - 1) \o vals
             ELSE tape

NoDraw == UNCHANGED <<tape, pos>>

----------------------------------------------------------------------------
(* 0_generate_dataset.py *)

Cleared ==
  /\ n_dummies = <<>>
  /\ cur_id = 0
  /\ first_default_dates = <<>>
  /\ first_default_idx = None
  /\ id_df = <<>>
  /\ initial_credit_limit = 0
  /\ credit_limits = <<>>
  /\ i = 0
  /\ std_epsilon = 0
  /\ current_used_amount = 0
  /\ used_amounts = <<>>
  /\ all_id_data = <<>>
  /\ final_df = None
  /\ error = ""

\* build_default_flags has not been called
NotCalled ==
  /\ lpc = "idle"
  /\ panel = <<>>
  /\ data_cutoff = None
  /\ out = <<>>
  /\ ids = <<>>
  /\ horizon = 0
  /\ series = <<>>

\* the script has not started
Fresh ==
  /\ pc = "seed"
  /\ tape = <<>>
  /\ pos = 1
  /\ outcomes = <<>>
  /\ Cleared

Started == Fresh /\ NotCalled

Init ==
  /\ num_ids \in 0..MaxRows
  /\ no_obs_per_id \in 0..MaxRows
  /\ num_ids * no_obs_per_id <= MaxRows
  /\ Started

Raise(e) ==
  /\ pc' = "failed"
  /\ error' = e

\* SeedRng without the seeding: the generator keeps the state it has
SeedRngOmitted ==
  /\ pc = "seed"
  /\ pc' = "n_dummies"
  /\ UNCHANGED <<num_ids, no_obs_per_id, error, tape, pos, n_dummies, cur_id,
                 first_default_dates, first_default_idx, id_df,
                 initial_credit_limit, credit_limits, i, std_epsilon,
                 current_used_amount, used_amounts, all_id_data, final_df, outcomes, lblvars>>

\* lines 33-34: np.random.seed(42); random.seed(42)
SeedRng ==
  /\ pc = "seed"
  /\ pos' = 1
  /\ pc' = "n_dummies"
  /\ UNCHANGED <<num_ids, no_obs_per_id, error, tape, n_dummies, cur_id,
                 first_default_dates, first_default_idx, id_df,
                 initial_credit_limit, credit_limits, i, std_epsilon,
                 current_used_amount, used_amounts, all_id_data, final_df, outcomes, lblvars>>

\* line 53: one scale per feature, drawn before the loop over the ids
DrawNDummies ==
  /\ pc = "n_dummies"
  /\ \E n \in ScaleDraws :
       /\ Consume([f \in 1..NumDummies |-> Entry("n_dummies", n[f])])
       /\ n_dummies' = n
  /\ pc' = "for_id"
  /\ UNCHANGED <<num_ids, no_obs_per_id, error, cur_id,
                 first_default_dates, first_default_idx, id_df,
                 initial_credit_limit, credit_limits, i, std_epsilon,
                 current_used_amount, used_amounts, all_id_data, final_df, outcomes, lblvars>>

\* lines 59-60: the next id and its frame of id and date; the values the
\* previous iteration left in the loop's locals are dead and are cleared
NextId ==
  /\ pc = "for_id"
  /\ cur_id < num_ids
  /\ cur_id' = cur_id + 1
  /\ id_df' = ("id" :> Broadcast(cur_id + 1, no_obs_per_id))
              @@ ("date" :> Column(date_range))
  /\ first_default_idx' = None
  /\ initial_credit_limit' = 0
  /\ credit_limits' = <<>>
  /\ i' = 0
  /\ std_epsilon' = 0
  /\ current_used_amount' = 0
  /\ used_amounts' = <<>>
  /\ pc' = "default"
  /\ NoDraw
  /\ UNCHANGED <<num_ids, no_obs_per_id, error, n_dummies, first_default_dates,
                 all_id_data, final_df, outcomes, lblvars>>

\* lines 66-70
MinDefaultIdx ==
  LET min_default_idx == no_obs_per_id \div 10
  IN  IF min_default_idx >= no_obs_per_id
      THEN (IF no_obs_per_id > 0 THEN no_obs_per_id - 1 ELSE 0)
      ELSE min_default_idx

\* DefaultInd with == for >=: only the default row is flagged
DefaultIndOnDateOnly(df, default_date) ==
  [k \in 1..NumRowsOf(df) |->
     Val(IF Get(df["date"][k]) = default_date THEN 1 ELSE 0)]

\* line 77: (id_df["date"] >= default_date).astype(int)
DefaultInd(df, default_date) ==
  [k \in 1..NumRowsOf(df) |->
     Val(IF Get(df["date"][k]) >= default_date THEN 1 ELSE 0)]

\* lines 64-80
DefaultAssignment ==
  /\ pc = "default"
  /\ \E u \in RandDraws :
       IF u < 50
       THEN IF MinDefaultIdx >= no_obs_per_id
            THEN \* np.random.randint(low, high) with low >= high
                 /\ Consume(<<Entry("default", u)>>)
                 /\ Raise("ValueError: low >= high")
                 /\ UNCHANGED <<first_default_idx, first_default_dates, id_df>>
            ELSE \E idx \in MinDefaultIdx..(no_obs_per_id - 1) :
                   LET default_date == Get(id_df["date"][idx + 1])
                   IN  /\ Consume(<<Entry("default", u), Entry("first_default_idx", idx)>>)
                       /\ first_default_idx' = Val(idx)
                       /\ first_default_dates' =
                            first_default_dates @@ (cur_id :> Val(default_date))
                       /\ id_df' = id_df @@
                            ("default_ind" :> DefaultInd(id_df, default_date))
                       /\ pc' = "sector"
                       /\ UNCHANGED error
       ELSE /\ Consume(<<Entry("default", u)>>)
            /\ id_df' = id_df @@ ("default_ind" :> Broadcast(0, no_obs_per_id))
            /\ first_default_dates' = first_default_dates @@ (cur_id :> None)
            /\ pc' = "sector"
            /\ UNCHANGED <<first_default_idx, error>>
  /\ UNCHANGED <<num_ids, no_obs_per_id, n_dummies, cur_id,
                 initial_credit_limit, credit_limits, i, std_epsilon,
                 current_used_amount, used_amounts, all_id_data, final_df, outcomes, lblvars>>

\* line 83
SectorAssignment ==
  /\ pc = "sector"
  /\ \E s \in SectorDraws :
       /\ Consume(<<Entry("sector", s)>>)
       /\ id_df' = id_df @@ ("sector" :> Broadcast(s, no_obs_per_id))
  /\ pc' = "limit"
  /\ UNCHANGED <<num_ids, no_obs_per_id, error, n_dummies, cur_id,
                 first_default_dates, first_default_idx,
                 initial_credit_limit, credit_limits, i, std_epsilon,
                 current_used_amount, used_amounts, all_id_data, final_df, outcomes, lblvars>>

\* ShockedLimit without the floor
ShockedLimitUnfloored(current_limit, change_percent, increase) ==
  LET change_amount == (current_limit * change_percent) \div 100
  IN  IF increase THEN current_limit + change_amount
                  ELSE current_limit - change_amount

\* lines 94-101: the limit after a shock of change_percent percent
ShockedLimit(current_limit, change_percent, increase) ==
  LET change_amount == (current_limit * change_percent) \div 100
      new_limit == IF increase THEN current_limit + change_amount
                               ELSE current_limit - change_amount
  IN  Max(CreditLimitFloor, new_limit)

\* lines 87-88
CreditLimitInit ==
  /\ pc = "limit"
  /\ \E c \in LimitDraws :
       /\ Consume(<<Entry("initial_credit_limit", c)>>)
       /\ initial_credit_limit' = c
       /\ credit_limits' = <<c>>
  /\ i' = 1
  /\ pc' = "limit_loop"
  /\ UNCHANGED <<num_ids, no_obs_per_id, error, n_dummies, cur_id,
                 first_default_dates, first_default_idx, id_df, std_epsilon,
                 current_used_amount, used_amounts, all_id_data, final_df, outcomes, lblvars>>

\* lines 90-103: one iteration of for i in range(1, no_obs_per_id)
CreditLimitStep ==
  /\ pc = "limit_loop"
  /\ i < no_obs_per_id
  /\ LET current_limit == credit_limits[Len(credit_limits)]
     IN  \E u \in RandDraws :
           IF u * no_obs_per_id < 1000
           THEN \E change_percent \in PercentDraws, v \in RandDraws :
                  /\ Consume(<<Entry("shock", u),
                               Entry("change_percent", change_percent),
                               Entry("increase", v)>>)
                  /\ credit_limits' = Append(credit_limits,
                       ShockedLimit(current_limit, change_percent, v < 500))
           ELSE /\ Consume(<<Entry("shock", u)>>)
                /\ credit_limits' = Append(credit_limits, current_limit)
  /\ i' = i + 1
  /\ UNCHANGED <<num_ids, no_obs_per_id, pc, error, n_dummies, cur_id,
                 first_default_dates, first_default_idx, id_df,
                 initial_credit_limit, std_epsilon,
                 current_used_amount, used_amounts, all_id_data, final_df, outcomes, lblvars>>

\* line 104: id_df["credit_limit"] = credit_limits; a list must be as long as the index
CreditLimitAssign ==
  /\ pc = "limit_loop"
  /\ i >= no_obs_per_id
  /\ IF Len(credit_limits) # NumRowsOf(id_df)
     THEN /\ Raise("ValueError: Length of values does not match length of index")
          /\ UNCHANGED id_df
     ELSE /\ id_df' = id_df @@ ("credit_limit" :> Column(credit_limits))
          /\ pc' = "usage"
          /\ UNCHANGED error
  /\ NoDraw
  /\ UNCHANGED <<num_ids, no_obs_per_id, n_dummies, cur_id,
                 first_default_dates, first_default_idx,
                 initial_credit_limit, credit_limits, i, std_epsilon,
                 current_used_amount, used_amounts, all_id_data, final_df, outcomes, lblvars>>

\* lines 118-120: (initial_credit_limit / 2) / (1.28 * sqrt(no_obs_per_id)),
\* jittered by jitter percent and floored
StdEpsilon(jitter) ==
  LET base_std_epsilon ==
        ((((initial_credit_limit \div 2) * 100) \div 128) * 100)
          \div ISqrt(10000 * no_obs_per_id)
  IN  Max(MinStdEpsilon, (base_std_epsilon * jitter) \div 100)

\* lines 109-122
UsageInit ==
  /\ pc = "usage"
  /\ \E jitter \in JitterDraws :
       /\ Consume(<<Entry("std_epsilon", jitter)>>)
       /\ std_epsilon' = StdEpsilon(jitter)
  /\ used_amounts' = <<>>
  /\ current_used_amount' = initial_credit_limit \div 2
  /\ i' = 0
  /\ pc' = "usage_loop"
  /\ UNCHANGED <<num_ids, no_obs_per_id, error, n_dummies, cur_id,
                 first_default_dates, first_default_idx, id_df,
                 initial_credit_limit, credit_limits, all_id_data, final_df, outcomes, lblvars>>

\* Clipped without the upper bound
ClippedBelow(limit, amount) == Max(0, amount)

\* lines 127-129: max(0.0, min(id_df["credit_limit"].iloc[i], current_used_amount))
Clipped(limit, amount) == Max(0, Min(limit, amount))

\* lines 124-134: one iteration of for i in range(no_obs_per_id)
UsageStep ==
  /\ pc = "usage_loop"
  /\ i < no_obs_per_id
  /\ LET clipped == Clipped(Get(id_df["credit_limit"][i + 1]), current_used_amount)
     IN  \E z \in ZDraws :
           LET epsilon == std_epsilon * z
           IN  /\ Consume(<<Entry("epsilon", epsilon)>>)
               /\ used_amounts' = Append(used_amounts, clipped)
               /\ current_used_amount' = clipped + epsilon
  /\ i' = i + 1
  /\ UNCHANGED <<num_ids, no_obs_per_id, pc, error, n_dummies, cur_id,
                 first_default_dates, first_default_idx, id_df,
                 initial_credit_limit, credit_limits, std_epsilon,
                 all_id_data, final_df, outcomes, lblvars>>

\* line 136
UsageAssign ==
  /\ pc = "usage_loop"
  /\ i >= no_obs_per_id
  /\ id_df' = id_df @@ ("used_amount" :> Column(used_amounts))
  /\ pc' = "dummy"
  /\ NoDraw
  /\ UNCHANGED <<num_ids, no_obs_per_id, error, n_dummies, cur_id,
                 first_default_dates, first_default_idx,
                 initial_credit_limit, credit_limits, i, std_epsilon,
                 current_used_amount, used_amounts, all_id_data, final_df, outcomes, lblvars>>

DummyCols == {DummyCol(f) : f \in 1..NumDummies}
DummyIndex(col_name) == CHOOSE f \in 1..NumDummies : DummyCol(f) = col_name

\* DummyFeatures with a scale drawn per entity and feature
DummyFeaturesPerEntity ==
  /\ pc = "dummy"
  /\ \E n \in ScaleDraws, normal \in NormalDraws(no_obs_per_id) :
       /\ Consume([f \in 1..NumDummies |-> Entry("n_dummies", n[f])]
                  \o [f \in 1..NumDummies |-> Entry("f_dummy", normal[f])])
       /\ id_df' = id_df @@
            [col_name \in DummyCols |->
               Column([r \in 1..no_obs_per_id |->
                 n[DummyIndex(col_name)] * normal[DummyIndex(col_name)][r]])]
  /\ pc' = "nullify"
  /\ UNCHANGED <<num_ids, no_obs_per_id, error, n_dummies, cur_id,
                 first_default_dates, first_default_idx,
                 initial_credit_limit, credit_limits, i, std_epsilon,
                 current_used_amount, used_amounts, all_id_data, final_df, outcomes, lblvars>>

\* lines 139-142: n_dummies[col_name] * np.random.normal(0, 1, no_obs_per_id)
DummyFeatures ==
  /\ pc = "dummy"
  /\ \E normal \in NormalDraws(no_obs_per_id) :
       /\ Consume([f \in 1..NumDummies |-> Entry("f_dummy", normal[f])])
       /\ id_df' = id_df @@
            [col_name \in DummyCols |->
               Column([r \in 1..no_obs_per_id |->
                 n_dummies[DummyIndex(col_name)] * normal[DummyIndex(col_name)][r]])]
  /\ pc' = "nullify"
  /\ UNCHANGED <<num_ids, no_obs_per_id, error, n_dummies, cur_id,
                 first_default_dates, first_default_idx,
                 initial_credit_limit, credit_limits, i, std_epsilon,
                 current_used_amount, used_amounts, all_id_data, final_df, outcomes, lblvars>>

\* lines 151-153
ColsToNullify(df) == Columns(df) \ {"id", "date", "default_ind"}

\* Nullified with > for >=: the default row keeps its regressors
NullifiedAfter(df, default_date) ==
  [col \in Columns(df) |->
     [k \in 1..NumRowsOf(df) |->
        IF col \in ColsToNullify(df) /\ Get(df["date"][k]) > default_date
        THEN NaN
        ELSE df[col][k]]]

\* line 155: id_df.loc[id_df["date"] >= default_date, cols_to_nullify] = np.nan
Nullified(df, default_date) ==
  [col \in Columns(df) |->
     [k \in 1..NumRowsOf(df) |->
        IF col \in ColsToNullify(df) /\ Get(df["date"][k]) >= default_date
        THEN NaN
        ELSE df[col][k]]]

\* lines 147-157
NullifyOnDefault ==
  /\ pc = "nullify"
  /\ LET df == IF first_default_dates[cur_id] # None
               THEN Nullified(id_df, Get(first_default_dates[cur_id]))
               ELSE id_df
     IN  /\ id_df' = df
         /\ all_id_data' = Append(all_id_data, df)
  /\ pc' = "for_id"
  /\ NoDraw
  /\ UNCHANGED <<num_ids, no_obs_per_id, error, n_dummies, cur_id,
                 first_default_dates, first_default_idx,
                 initial_credit_limit, credit_limits, i, std_epsilon,
                 current_used_amount, used_amounts, final_df, outcomes, lblvars>>

RowOf(df, k) == [col \in Columns(df) |-> df[col][k]]
RowsOf(df) == [k \in 1..NumRowsOf(df) |-> RowOf(df, k)]

RECURSIVE ConcatRows(_)
ConcatRows(frames) ==
  IF frames = <<>> THEN <<>>
  ELSE RowsOf(Head(frames)) \o ConcatRows(Tail(frames))

\* lines 160-163: pd.concat(all_id_data).reset_index(drop=True)
Concat ==
  /\ pc = "for_id"
  /\ cur_id >= num_ids
  /\ IF all_id_data = <<>>
     THEN /\ Raise("ValueError: No objects to concatenate")
          /\ UNCHANGED final_df
     ELSE /\ final_df' = Val(ConcatRows(all_id_data))
          /\ pc' = "done"
          /\ UNCHANGED error
  /\ NoDraw
  /\ UNCHANGED <<num_ids, no_obs_per_id, n_dummies, cur_id,
                 first_default_dates, first_default_idx, id_df,
                 initial_credit_limit, credit_limits, i, std_epsilon,
                 current_used_amount, used_amounts, all_id_data, outcomes, lblvars>>

Next ==
  \/ SeedRng
  \/ DrawNDummies
  \/ NextId
  \/ DefaultAssignment
  \/ SectorAssignment
  \/ CreditLimitInit
  \/ CreditLimitStep
  \/ CreditLimitAssign
  \/ UsageInit
  \/ UsageStep
  \/ UsageAssign
  \/ DummyFeatures
  \/ NullifyOnDefault
  \/ Concat

Spec == Init /\ [][Next]_vars

----------------------------------------------------------------------------
(* A second execution of the script with the same configuration. The       *)
(* process starts afresh; the stream the seed determines is the same one.  *)

Outcome == [pc |-> pc, error |-> error, final_df |-> final_df]

\* lines 32-56: the script is started again
Rerun ==
  /\ pc \in {"done", "failed"}
  /\ outcomes = <<>>
  /\ outcomes' = <<Outcome>>
  /\ pc' = "seed"
  /\ n_dummies' = <<>>
  /\ cur_id' = 0
  /\ first_default_dates' = <<>>
  /\ first_default_idx' = None
  /\ id_df' = <<>>
  /\ initial_credit_limit' = 0
  /\ credit_limits' = <<>>
  /\ i' = 0
  /\ std_epsilon' = 0
  /\ current_used_amount' = 0
  /\ used_amounts' = <<>>
  /\ all_id_data' = <<>>
  /\ final_df' = None
  /\ error' = ""
  /\ NoDraw
  /\ UNCHANGED <<num_ids, no_obs_per_id, lblvars>>

NextTwice == Next \/ Rerun

\* the generator executed twice
SpecTwice == Init /\ [][NextTwice]_vars

----------------------------------------------------------------------------
(* Default assignment alone, on longer grids *)

InitDefault ==
  /\ num_ids = 1
  /\ no_obs_per_id \in 0..MaxGrid
  /\ Started

NextDefault ==
  \/ SeedRng
  \/ DrawNDummies
  \/ NextId
  \/ DefaultAssignment

SpecDefault == InitDefault /\ [][NextDefault]_vars

----------------------------------------------------------------------------
(* The credit-limit path alone, on a grid long enough for the floor to be  *)
(* reached from the smallest initial limit. The initial state is the one   *)
(* the script is in after line 88 when the first entity did not default,   *)
(* got sector "A" and the initial limit 100000.                            *)

InitLimit ==
  /\ num_ids = 1
  /\ no_obs_per_id = MaxLimitGrid
  /\ pc = "limit_loop"
  /\ error = ""
  /\ n_dummies = <<0, 250, 500, 750, 1000>>
  /\ tape = [f \in 1..NumDummies |->
               [site |-> "n_dummies", val |-> n_dummies[f], id |-> 0]]
            \o <<[site |-> "default", val |-> 999, id |-> 1],
                 [site |-> "sector", val |-> "A", id |-> 1],
                 [site |-> "initial_credit_limit", val |-> 100000, id |-> 1]>>
  /\ pos = Len(tape) + 1
  /\ cur_id = 1
  /\ first_default_dates = (1 :> None)
  /\ first_default_idx = None
  /\ id_df = ("id" :> Broadcast(1, no_obs_per_id))
             @@ ("date" :> Column(date_range))
             @@ ("default_ind" :> Broadcast(0, no_obs_per_id))
             @@ ("sector" :> Broadcast("A", no_obs_per_id))
  /\ initial_credit_limit = 100000
  /\ credit_limits = <<100000>>
  /\ i = 1
  /\ std_epsilon = 0
  /\ current_used_amount = 0
  /\ used_amounts = <<>>
  /\ all_id_data = <<>>
  /\ final_df = None
  /\ outcomes = <<>>
  /\ NotCalled

NextLimit ==
  \/ CreditLimitStep
  \/ CreditLimitAssign

SpecLimit == InitLimit /\ [][NextLimit]_vars

----------------------------------------------------------------------------
(* Properties of the generator *)

\* the frame of entity e: finished, or being generated
Frame(e) == IF e <= Len(all_id_data) THEN all_id_data[e] ELSE id_df
Entities == 1..cur_id
Finished == 1..Len(all_id_data)
Regressors == {"sector", "credit_limit", "used_amount"} \cup DummyCols
Generated == IF pc = "done" THEN Get(final_df) ELSE <<>>

(* C1: for every entity the default_ind trajectory over the grid rows, in  *)
(* increasing date order, is non-decreasing (no 1 -> 0 transition, at most *)
(* one 0 -> 1 transition), and an entity whose default draw did not fire   *)
(* has default_ind = 0 on all rows.                                        *)
C1_DefaultMonotone ==
  /\ \A e \in Entities :
       LET df == Frame(e)
           n == NumRowsOf(df)
       IN  "default_ind" \in Columns(df) =>
             /\ n = no_obs_per_id
             /\ \A k \in 1..n : df["default_ind"][k] \in {Val(0), Val(1)}
             /\ \A k \in 1..(n - 1) :
                  /\ Get(df["date"][k]) < Get(df["date"][k + 1])
                  /\ Get(df["default_ind"][k]) <= Get(df["default_ind"][k + 1])
             /\ first_default_dates[e] = None =>
                  \A k \in 1..n : df["default_ind"][k] = Val(0)
  /\ \A j, k \in 1..Len(Generated) :
       (j < k /\ Generated[j]["id"] = Generated[k]["id"]) =>
         /\ Get(Generated[j]["date"]) < Get(Generated[k]["date"])
         /\ Get(Generated[j]["default_ind"]) <= Get(Generated[k]["default_ind"])

\* an entity defaulted in the middle of a longer grid
C1_Witness ==
  \E e \in Entities :
    /\ "default_ind" \in Columns(Frame(e))
    /\ \E k \in 2..(NumRowsOf(Frame(e)) - 2) :
         /\ Frame(e)["default_ind"][k] = Val(0)
         /\ Frame(e)["default_ind"][k + 1] = Val(1)
         /\ Frame(e)["default_ind"][k + 2] = Val(1)

(* C2: for every defaulting entity every regressor column is missing on    *)
(* every row dated at or after the first-default timestamp and present on  *)
(* every row before it; id, date and default_ind are never missing.        *)
C2_NullificationComplete ==
  /\ \A e \in Finished :
       LET df == all_id_data[e]
       IN  /\ Columns(df) = {"id", "date", "default_ind"} \cup Regressors
           /\ \A k \in 1..NumRowsOf(df) :
                /\ df["id"][k] # NaN
                /\ df["date"][k] # NaN
                /\ df["default_ind"][k] # NaN
                /\ first_default_dates[e] # None =>
                     \A col \in Regressors :
                       df[col][k] = NaN <=>
                         Get(df["date"][k]) >= Get(first_default_dates[e])
  /\ \A k \in 1..Len(Generated) :
       LET row == Generated[k]
           e == Get(row["id"])
       IN  /\ row["id"] # NaN /\ row["date"] # NaN /\ row["default_ind"] # NaN
           /\ first_default_dates[e] # None =>
                \A col \in Regressors :
                  row[col] = NaN <=>
                    Get(row["date"]) >= Get(first_default_dates[e])

\* a generated defaulting entity with a row before and a row at the default
C2_Witness ==
  /\ pc = "done"
  /\ \E e \in Finished :
       /\ first_default_dates[e] # None
       /\ \E j, k \in 1..NumRowsOf(all_id_data[e]) :
            /\ all_id_data[e]["used_amount"][j] # NaN
            /\ all_id_data[e]["used_amount"][k] = NaN

(* C3: on every row that is not nullified, 0 <= used_amount <= the         *)
(* credit_limit of the same row, whatever the increments and the shocks.   *)
C3_UsageWithinLimit ==
  /\ \A e \in Entities :
       LET df == Frame(e)
       IN  "used_amount" \in Columns(df) =>
             \A k \in 1..NumRowsOf(df) :
               df["used_amount"][k] # NaN =>
                 /\ df["credit_limit"][k] # NaN
                 /\ 0 <= Get(df["used_amount"][k])
                 /\ Get(df["used_amount"][k]) <= Get(df["credit_limit"][k])
  /\ pc = "usage_loop" =>
       \A k \in 1..Len(used_amounts) :
         /\ 0 <= used_amounts[k]
         /\ used_amounts[k] <= Get(id_df["credit_limit"][k])
  /\ \A k \in 1..Len(Generated) :
       Generated[k]["used_amount"] # NaN =>
         /\ Generated[k]["credit_limit"] # NaN
         /\ 0 <= Get(Generated[k]["used_amount"])
         /\ Get(Generated[k]["used_amount"]) <= Get(Generated[k]["credit_limit"])

\* a downward shock at a row cut the usage carried into that row
C3_Witness ==
  /\ pc = "done"
  /\ \E k \in 2..Len(Generated) :
       /\ Generated[k]["id"] = Generated[k - 1]["id"]
       /\ Generated[k]["used_amount"] # NaN
       /\ Get(Generated[k]["credit_limit"]) < Get(Generated[k - 1]["credit_limit"])
       /\ Generated[k]["used_amount"] = Generated[k]["credit_limit"]
       /\ Get(Generated[k - 1]["used_amount"]) < Get(Generated[k]["used_amount"])

(* C4: the first-default row index of a defaulting entity lies in          *)
(* [ceil(0.10 * L), L - 1].                                                *)
C4_SeasoningFloor ==
  first_default_idx # None =>
    /\ Get(first_default_idx) >= (no_obs_per_id + 9) \div 10
    /\ Get(first_default_idx) <= no_obs_per_id - 1

(* C7: a configuration with no entities or an empty grid yields an empty   *)
(* dataset and does not fail.                                              *)
C7_EmptyConfigurationYieldsEmptyDataset ==
  (num_ids = 0 \/ no_obs_per_id = 0) =>
    /\ pc # "failed"
    /\ pc = "done" => final_df = Val(<<>>)

(* C8 *)

\* the positions of the consumed draws made at a call site
DrawsAt(site) == {p \in 1..(pos - 1) : tape[p].site = site}
\* the n-th smallest element of a set of positions
Nth(S, n) == CHOOSE p \in S : Cardinality({q \in S : q < p}) = n - 1
\* the position of the first standard-normal vector drawn for entity e
FirstNormal(e) ==
  CHOOSE p \in 1..(pos - 1) :
    /\ tape[p].site = "f_dummy" /\ tape[p].id = e
    /\ \A q \in 1..(p - 1) : ~(tape[q].site = "f_dummy" /\ tape[q].id = e)
\* the position of the scale draw in force for feature f when the noise
\* features of entity e were filled: the latest NumDummies scale draws
\* before the entity's first standard-normal vector, taken in feature order
ScalePos(e, f) ==
  LET before == {p \in DrawsAt("n_dummies") : p < FirstNormal(e)}
  IN  Nth(before, Cardinality(before) - NumDummies + f)

(* C8, as stated: every entity has a scale draw of its own for every       *)
(* feature slot, so two entities never share the scale draw of a feature.  *)
C8_ScaleDrawnPerEntity ==
  \A d, e \in Finished : \A f \in 1..NumDummies :
    d # e => ScalePos(d, f) # ScalePos(e, f)

(* C8, amended: the scale of each noise feature is drawn once per feature  *)
(* for the whole run, before any entity is generated; every entity's       *)
(* column of that feature is that one draw times the entity's own          *)
(* standard-normal vector, so all entities share the feature's scale.      *)
C8_ScaleDrawnPerFeature ==
  /\ pc \notin {"seed", "n_dummies"} =>
       /\ \A p \in 1..(pos - 1) : tape[p].site = "n_dummies" <=> p <= NumDummies
       /\ \A f \in 1..NumDummies : tape[f].id = 0 /\ tape[f].val = n_dummies[f]
  /\ \A e \in Finished :
       LET first == FirstNormal(e)
       IN  \A f \in 1..NumDummies :
             /\ tape[first + f - 1].site = "f_dummy"
             /\ tape[first + f - 1].id = e
             /\ \A r \in 1..NumRowsOf(all_id_data[e]) :
                  all_id_data[e][DummyCol(f)][r]
                    \in {NaN, Val(tape[f].val * tape[first + f - 1].val[r])}

\* two generated entities whose noise features are present and scaled by
\* a non-zero draw
C8_Witness ==
  /\ pc = "done"
  /\ Len(all_id_data) >= 2
  /\ \A e \in Finished :
       /\ NumRowsOf(all_id_data[e]) >= 1
       /\ all_id_data[e][DummyCol(1)][1] \notin {NaN, Val(0)}

(* C9: two executions with the same configuration and the same seed        *)
(* consume the same draws in the same order (per entity: default, sector,  *)
(* credit-limit path, usage path, noise features; entity by entity) and    *)
(* end with identical output rows.                                         *)
Stage(site) ==
  CASE site = "n_dummies" -> 0
    [] site \in {"default", "first_default_idx"} -> 1
    [] site = "sector" -> 2
    [] site \in {"initial_credit_limit", "shock", "change_percent", "increase"} -> 3
    [] site \in {"std_epsilon", "epsilon"} -> 4
    [] site = "f_dummy" -> 5

C9_Deterministic ==
  /\ (Len(outcomes) > 0 /\ pc \in {"done", "failed"}) => Outcome = outcomes[1]
  /\ \A p \in 1..(pos - 2) :
       /\ tape[p].id <= tape[p + 1].id
       /\ tape[p].id = tape[p + 1].id =>
            Stage(tape[p].site) <= Stage(tape[p + 1].site)

\* the second execution produced the rows of two entities again
C9_Witness ==
  /\ Len(outcomes) > 0
  /\ pc = "done"
  /\ num_ids = 2
  /\ Len(Get(final_df)) = 2

(* C10: on every row that is not nullified credit_limit >= 10000; each     *)
(* row after the first carries the previous limit, or holds                *)
(* max(10000, previous * (1 +/- m)) for a magnitude m of 20 to 30 percent. *)
C10_CreditLimitFloorAndSteps ==
  /\ \A k \in 1..Len(credit_limits) : credit_limits[k] >= CreditLimitFloor
  /\ \A k \in 1..(Len(credit_limits) - 1) :
       LET previous == credit_limits[k]
       IN  \/ credit_limits[k + 1] = previous
           \/ \E m \in 20..30 :
                \/ credit_limits[k + 1] =
                     Max(CreditLimitFloor, previous + (previous * m) \div 100)
                \/ credit_limits[k + 1] =
                     Max(CreditLimitFloor, previous - (previous * m) \div 100)
  /\ \A e \in Entities :
       "credit_limit" \in Columns(Frame(e)) =>
         \A k \in 1..NumRowsOf(Frame(e)) :
           Frame(e)["credit_limit"][k] # NaN =>
             /\ Get(Frame(e)["credit_limit"][k]) >= CreditLimitFloor
             /\ e = cur_id => Frame(e)["credit_limit"][k] = Val(credit_limits[k])

\* a downward shock was stopped at the floor, and the path became the column
C10_Witness ==
  /\ "credit_limit" \in Columns(id_df)
  /\ \E k \in 1..(Len(credit_limits) - 1) :
       /\ credit_limits[k] > CreditLimitFloor
       /\ credit_limits[k + 1] = CreditLimitFloor
       /\ credit_limits[k] - (credit_limits[k] * 30) \div 100 < CreditLimitFloor

----------------------------------------------------------------------------
(* module_dataprep.py: build_default_flags(df, data_cutoff)                *)
(*                                                                         *)
(* A timestamp is a record of year, month, day and hour. A panel row is a  *)
(* record of id (the entity's ordinal), date and default_ind, to which the *)
(* merges add the label cells def_ind_1m, def_ind_2m, def_ind_3m.          *)

T(y, m, d, h) == [y |-> y, m |-> m, d |-> d, h |-> h]

(* Arguments of the calls explored *)
PanelIds == {1, 2}
PanelDates == {T(2023, 11, 30, 6), T(2023, 12, 31, 0), T(2024, 1, 31, 18),
               T(2024, 2, 29, 0), T(2024, 3, 1, 0), T(2024, 4, 30, 18)}
CutoffDates == {T(2023, 11, 30, 0), T(2024, 1, 31, 12)}
PanelRows == [id : PanelIds, date : PanelDates, default_ind : {0, 1}]
Panels == UNION {[1..k -> PanelRows] : k \in 0..MaxPanelRows}

\* an order-preserving number of a timestamp
Ord(t) == ((t.y * 12 + (t.m - 1)) * 31 + (t.d - 1)) * 24 + t.h

\* Timestamp.normalize(): midnight of the same day
Normalized(t) == [t EXCEPT !.h = 0]

IsLeap(y) == (y % 4 = 0 /\ y % 100 # 0) \/ y % 400 = 0
DaysInMonth(y, m) ==
  IF m = 2 THEN (IF IsLeap(y) THEN 29 ELSE 28)
  ELSE IF m \in {4, 6, 9, 11} THEN 30 ELSE 31

\* t + pd.DateOffset(months=k): the same day of the month k months on,
\* or that month's last day when it is shorter
AddMonths(t, k) ==
  LET months == t.y * 12 + (t.m - 1) + k
      y == months \div 12
      m == (months % 12) + 1
  IN  [y |-> y, m |-> m, d |-> Min(t.d, DaysInMonth(y, m)), h |-> t.h]

\* drop_duplicates() without the dropping
KeepDuplicates(values) == values

\* Series.drop_duplicates(): the first occurrence of each value
DropDuplicates(values) ==
  LET First(k) == \A j \in 1..(k - 1) : values[j] # values[k]
      kept == {k \in 1..Len(values) : First(k)}
      RECURSIVE Pick(_)
      Pick(k) == IF k > Len(values) THEN <<>>
                 ELSE IF k \in kept THEN <<values[k]>> \o Pick(k + 1)
                 ELSE Pick(k + 1)
  IN  Pick(1)

RECURSIVE SortValues(_)
\* Series.sort_values()
SortValues(values) ==
  IF values = <<>> THEN <<>>
  ELSE LET k == CHOOSE j \in 1..Len(values) :
                  \A l \in 1..Len(values) : values[j] <= values[l]
       IN  <<values[k]>>
           \o SortValues(SubSeq(values, 1, k - 1) \o SubSeq(values, k + 1, Len(values)))

LabelCol(months) == <<"def_ind_1m", "def_ind_2m", "def_ind_3m">>[months]

\* the window including the cutoff day
InWindowClosed(date, cutoff, horizon_end) ==
  Ord(date) >= Ord(cutoff) /\ Ord(date) <= Ord(horizon_end)

\* line 34: (out["date"] > data_cutoff) & (out["date"] <= horizon_end)
InWindow(date, cutoff, horizon_end) ==
  Ord(date) > Ord(cutoff) /\ Ord(date) <= Ord(horizon_end)

\* lines 36-43: per id of the index the maximum default_ind of its rows in
\* the window, 0 for an id without such rows
WindowFlags(rows, index, cutoff, horizon_end) ==
  LET Selected(r) == InWindow(r.date, cutoff, horizon_end)
      masked == SelectSeq(rows, Selected)
      grouped == {masked[k].id : k \in 1..Len(masked)}
      GroupMax(id) ==
        CHOOSE v \in {masked[k].default_ind : k \in {j \in 1..Len(masked) : masked[j].id = id}} :
          \A k \in 1..Len(masked) : masked[k].id = id => masked[k].default_ind <= v
  IN  [k \in 1..Len(index) |->
         [id |-> index[k],
          value |-> IF index[k] \in grouped THEN GroupMax(index[k]) ELSE 0]]

RECURSIVE MergeLeft(_, _, _)
\* line 47: pd.merge(out, s, on="id", how="left"): each left row once per
\* right row of its id, or once with a missing value when there is none
MergeLeft(left, right, name) ==
  IF left = <<>> THEN <<>>
  ELSE LET r == Head(left)
           Matches(e) == e.id = r.id
           matching == SelectSeq(right, Matches)
           joined == IF matching = <<>>
                     THEN <<r @@ (name :> NaN)>>
                     ELSE [k \in 1..Len(matching) |->
                             r @@ (name :> Val(matching[k].value))]
       IN  joined \o MergeLeft(Tail(left), right, name)

InitLabel ==
  /\ num_ids = 0
  /\ no_obs_per_id = 0
  /\ Fresh
  /\ lpc = "call"
  /\ panel \in Panels
  /\ data_cutoff \in CutoffDates
  /\ out = <<>>
  /\ ids = <<>>
  /\ horizon = 0
  /\ series = <<>>

\* lines 23-28
Normalize ==
  /\ lpc = "call"
  /\ out' = [k \in 1..Len(panel) |->
               [panel[k] EXCEPT !.date = Normalized(panel[k].date)]]
  /\ data_cutoff' = Normalized(data_cutoff)
  /\ ids' = SortValues(DropDuplicates([k \in 1..Len(panel) |-> panel[k].id]))
  /\ horizon' = 1
  /\ lpc' = "for_n"
  /\ UNCHANGED <<panel, series, genvars>>

\* an iteration whose window is the n-th month after the cutoff alone,
\* (cutoff + (n - 1) months, cutoff + n months]
LabelHorizonSliding ==
  /\ lpc = "for_n"
  /\ horizon <= 3
  /\ LET horizon_start == AddMonths(data_cutoff, horizon - 1)
         horizon_end == AddMonths(data_cutoff, horizon)
         flags == WindowFlags(out, ids, horizon_start, horizon_end)
     IN  /\ series' = flags
         /\ out' = MergeLeft(out, flags, LabelCol(horizon))
  /\ horizon' = horizon + 1
  /\ UNCHANGED <<lpc, panel, data_cutoff, ids, genvars>>

\* lines 31-47: one iteration of for n in (1, 2, 3)
LabelHorizon ==
  /\ lpc = "for_n"
  /\ horizon <= 3
  /\ LET horizon_end == AddMonths(data_cutoff, horizon)
         flags == WindowFlags(out, ids, data_cutoff, horizon_end)
     IN  /\ series' = flags
         /\ out' = MergeLeft(out, flags, LabelCol(horizon))
  /\ horizon' = horizon + 1
  /\ UNCHANGED <<lpc, panel, data_cutoff, ids, genvars>>

\* lines 50-52
Truncate ==
  /\ lpc = "for_n"
  /\ horizon > 3
  /\ LET InScope(r) == Ord(r.date) <= Ord(data_cutoff)
     IN  out' = SelectSeq(out, InScope)
  /\ lpc' = "returned"
  /\ UNCHANGED <<panel, data_cutoff, ids, horizon, series, genvars>>

NextLabel ==
  \/ Normalize
  \/ LabelHorizon
  \/ Truncate

SpecLabel == InitLabel /\ [][NextLabel]_vars

----------------------------------------------------------------------------
(* Properties of build_default_flags *)

CutoffDay == Normalized(data_cutoff)
IdsOf(rows) == {rows[k].id : k \in 1..Len(rows)}
\* id, date and default_ind of a row
Core(r) == [id |-> r.id, date |-> r.date, default_ind |-> r.default_ind]
Cores(rows) == [k \in 1..Len(rows) |-> Core(rows[k])]
Count(rows, v) == Cardinality({k \in 1..Len(rows) : rows[k] = v})
\* the panel with its dates normalized
DayPanel == [k \in 1..Len(panel) |-> [panel[k] EXCEPT !.date = Normalized(panel[k].date)]]
\* whether the panel has a row of the entity with default_ind = 1 and
\* cutoff < date <= cutoff + months calendar months
DefaultWithin(id, months) ==
  \E k \in 1..Len(DayPanel) :
    /\ DayPanel[k].id = id
    /\ DayPanel[k].default_ind = 1
    /\ Ord(CutoffDay) < Ord(DayPanel[k].date)
    /\ Ord(DayPanel[k].date) <= Ord(AddMonths(CutoffDay, months))

(* C5: for every entity id of the panel and every horizon N in 1..3 the    *)
(* label def_ind_Nm is 1 exactly when the panel has a row of the entity    *)
(* with cutoff < date <= cutoff + N months and default_ind = 1, and is 0   *)
(* otherwise, never missing.                                               *)
C5_LabelsMatchWindow ==
  /\ horizon >= 2 =>
       \* the labels just computed: one per id of the panel
       /\ IdsOf(series) = IdsOf(panel)
       /\ \A j, k \in 1..Len(series) : series[j].id = series[k].id => j = k
       /\ \A k \in 1..Len(series) :
            series[k].value =
              (IF DefaultWithin(series[k].id, horizon - 1) THEN 1 ELSE 0)
  /\ \A months \in 1..(horizon - 1) :
       \A k \in 1..Len(out) :
         out[k][LabelCol(months)] =
           Val(IF DefaultWithin(out[k].id, months) THEN 1 ELSE 0)
  /\ (lpc = "for_n" /\ horizon > 3) => IdsOf(out) = IdsOf(panel)

\* a returned row of an entity that defaults in the second month after the
\* cutoff, next to a row of an entity with no rows after the cutoff
C5_Witness ==
  /\ lpc = "for_n" /\ horizon > 3
  /\ \E j, k \in 1..Len(out) :
       /\ out[j]["def_ind_1m"] = Val(0)
       /\ out[j]["def_ind_2m"] = Val(1)
       /\ out[j]["def_ind_3m"] = Val(1)
       /\ out[k].id # out[j].id
       /\ Ord(out[k].date) <= Ord(data_cutoff)
       /\ out[k]["def_ind_3m"] = Val(0)

C11_LabelsNested ==
  /\ lpc \in {"for_n", "returned"} =>
       \A months \in 1..2 :
         Ord(AddMonths(data_cutoff, months)) <= Ord(AddMonths(data_cutoff, months + 1))
  /\ horizon >= 3 =>
       \A k \in 1..Len(out) :
         out[k]["def_ind_1m"] = Val(1) => out[k]["def_ind_2m"] = Val(1)
  /\ horizon >= 4 =>
       \A k \in 1..Len(out) :
         out[k]["def_ind_2m"] = Val(1) => out[k]["def_ind_3m"] = Val(1)

\* with a cutoff on the 31st, whose horizon ends are clamped to shorter
\* months, a returned row of an entity that has a default in the first
\* month after the cutoff and none in its rows of the later months
C11_Witness ==
  /\ lpc = "returned"
  /\ data_cutoff.d = 31
  /\ \E k \in 1..Len(out) :
       /\ out[k]["def_ind_1m"] = Val(1)
       /\ out[k]["def_ind_2m"] = Val(1)
       /\ out[k]["def_ind_3m"] = Val(1)
       /\ \A j \in 1..Len(panel) :
            (panel[j].id = out[k].id /\ panel[j].default_ind = 1)
              => Ord(Normalized(panel[j].date)) <= Ord(AddMonths(data_cutoff, 1))

====
